---- MODULE Spec2Model ----
(***************************************************************************)
(* Handle ownership, error translation and the iteration bridge of the     *)
(* libzfs binding (src/src/lib.rs, src/src/error.rs).                      *)
(*                                                                         *)
(* The native library is the environment: it hands out handles, returns    *)
(* status codes and fills its error slot.  Every public operation of the   *)
(* binding is one action; the native calls it makes are appended to trace  *)
(* in the order in which they return, and its return value is result.      *)
(***************************************************************************)
EXTENDS Integers, Sequences, FiniteSets, TLC

(* ------------------------------ bounds -------------------------------- *)
MaxZfs == 3        \* native dataset handles the library hands out
MaxZpool == 2      \* native pool handles the library hands out
MaxDeliver == 2    \* handles one native enumeration call delivers
MaxWraps == 2      \* ZPool objects built around the library's own pool handle
MaxNullDups == 1   \* failed duplications, each leaving a Dataset around NULL
MaxNames == 2      \* names given to one batch operation
MaxSnaps == 3      \* snapshots of the dataset whose snapshots are enumerated
MaxTime == 3       \* creation times of snapshots
MaxText == 4       \* bytes of a host text a SafeString is built from

(* ----------------------------- constants ------------------------------ *)
NULL == 0
NUL == 0                      \* the byte that ends a C string
\* host texts (sequences of bytes, NUL among them) given as names
Texts == {<<1>>, <<2>>, <<1, NUL, 2>>, <<NUL, 1>>}
ZfsHandles == 1..MaxZfs
ZpoolHandles == 1..MaxZpool

EZFS_SUCCESS == "EZFS_SUCCESS"
EZFS_NOENT == "EZFS_NOENT"
EZFS_UNKNOWN == "EZFS_UNKNOWN"
Codes == {EZFS_SUCCESS, EZFS_NOENT, EZFS_UNKNOWN}
FailCodes == {EZFS_NOENT, EZFS_UNKNOWN}
Errnos == {2, 12}             \* ENOENT, ENOMEM
Rets == {0, -1}               \* status a native call returns

Filesystem == "Filesystem"
Snapshot == "Snapshot"
Volume == "Volume"
Pool == "Pool"
Bookmark == "Bookmark"
DatasetType == {Filesystem, Snapshot, Volume, Pool, Bookmark}
\* the types zfs_get_type returns for a dataset handle: the library makes
\* none of type ZFS_TYPE_POOL
HandleTypes == DatasetType \ {Pool}

VARIABLES
    libzfs,        \* the LibZfs object: "none", "live" or "dropped"
    libzfsHandle,  \* LibZfs.handle, the native context handle it owns
    finiCalls,     \* libzfs_fini calls made so far
    zfsNext,       \* dataset handles handed out so far
    zpoolNext,     \* pool handles handed out so far
    poolCache,     \* pool handle the library keeps for its dataset handles
    datasets,      \* handle value -> number of live Dataset objects
    zpools,        \* handle value -> number of live ZPool objects
    zfsWrapped,    \* handle value -> Dataset objects ever built around it
    zfsClosed,     \* handle value -> zfs_close calls made on it
    zpoolWrapped,  \* handle value -> ZPool objects ever built around it
    zpoolClosed,   \* handle value -> zpool_close calls made on it
    trace,         \* native calls of the last operation, in return order
    result,        \* what the last operation returned
    last,          \* what the native side did in the last operation
    snaps,         \* creation times of the snapshots of the dataset behind
                   \* handle 1, in the order the native library walks them
    safe           \* the SafeString the host program holds, if any

vars == <<libzfs, libzfsHandle, finiCalls, zfsNext, zpoolNext, poolCache,
          datasets, zpools, zfsWrapped, zfsClosed, zpoolWrapped,
          zpoolClosed, trace, result, last, snaps, safe>>

handleVars == <<zfsNext, zpoolNext, poolCache, datasets, zpools,
                zfsWrapped, zfsClosed, zpoolWrapped, zpoolClosed>>

(* ------------------------------ helpers ------------------------------- *)
Bump(f, x) == [f EXCEPT ![x] = @ + 1]
Drop1(f, x) == [f EXCEPT ![x] = @ - 1]

RECURSIVE BumpAll(_, _)
BumpAll(f, s) == IF s = <<>> THEN f ELSE BumpAll(Bump(f, Head(s)), Tail(s))

RECURSIVE DropAll(_, _)
DropAll(f, s) == IF s = <<>> THEN f ELSE DropAll(Drop1(f, Head(s)), Tail(s))

\* the handles zfsNext + 1 .. zfsNext + n, as a sequence
Fresh(from, n) == [i \in 1..n |-> from + i]

\* one native call in the trace: function, handle, string and name-set
\* arguments (those it does not take are NULL or empty)
Call(fn, h) == [fn |-> fn, h |-> h, str |-> <<>>, nvl |-> <<>>]
CallStr(fn, h, str) == [fn |-> fn, h |-> h, str |-> str, nvl |-> <<>>]
CallNvl(fn, nvl) == [fn |-> fn, h |-> NULL, str |-> <<>>, nvl |-> nvl]

\* the handle arguments of the calls of fn in a trace, in order
RECURSIVE HandlesOf(_, _)
HandlesOf(tr, fn) ==
    IF tr = <<>> THEN <<>>
    ELSE (IF Head(tr).fn = fn THEN <<Head(tr).h>> ELSE <<>>) \o HandlesOf(Tail(tr), fn)

\* the calls of the functions fns in a trace, in order
CallsOf(tr, fns) == SelectSeq(tr, LAMBDA c : c.fn \in fns)

\* what a native function reads from a char pointer: the bytes before the
\* first NUL
RECURSIVE CStrRead(_)
CStrRead(bytes) ==
    IF bytes = <<>> \/ Head(bytes) = NUL THEN <<>>
    ELSE <<Head(bytes)>> \o CStrRead(Tail(bytes))

(* ------------------------------ Safe String --------------------------- *)
\* the bytes of host texts, and the host texts a SafeString is built from
Bytes == {NUL, 1, 2}
HostTexts == UNION {[1..n -> Bytes] : n \in 0..MaxText}

\* a text with a NUL among its bytes
HasNul(text) == \E i \in 1..Len(text) : text[i] = NUL

\* a CString::new that does not look for a NUL
CString_new_unchecked(s) == [ok |-> TRUE, bytes |-> s \o <<NUL>>]

\* CString::new: a NulError for bytes with a NUL among them, otherwise the
\* bytes and the NUL that ends them
CString_new(s) ==
    IF HasNul(s)
    THEN [ok |-> FALSE, bytes |-> <<>>]
    ELSE [ok |-> TRUE, bytes |-> s \o <<NUL>>]

\* no SafeString yet
NoSafe == [state |-> "none", text |-> <<>>, inner |-> <<>>, view |-> <<>>]

\* impl From<String> for SafeString: CString::new(s).unwrap() panics on the
\* NulError and no SafeString comes to be
From_String(s) ==
    IF CString_new(s).ok
    THEN [state |-> "built", text |-> s, inner |-> CString_new(s).bytes, view |-> <<>>]
    ELSE [state |-> "panicked", text |-> s, inner |-> <<>>, view |-> <<>>]

\* CString::to_bytes and CString::into_bytes: the bytes without the NUL
\* that ends them
to_bytes(inner) == SubSeq(inner, 1, Len(inner) - 1)

\* impl AsRef<str> for SafeString
as_ref(s) == to_bytes(s.inner)

\* impl From<SafeString> for String
Into_String(s) == to_bytes(s.inner)

\* SafeString::as_ptr: the bytes of inner, the NUL that ends them included
as_ptr(s) == s.inner

\* the name of the one pool, a SafeString
PoolName == From_String(<<1>>)

(* --------------------------- error model ------------------------------ *)
NoError == [kind |-> "None", code |-> "", msg |-> "", errno |-> 0]

\* libzfs_error_description: the library's text for its current code
libzfs_error_description(code) == "description of " \o code

\* ZfsError::last_error reads the slot with two native calls
LastErrorCalls == <<Call("libzfs_errno", NULL), Call("libzfs_error_description", NULL)>>
last_error(slot) == [code |-> slot.code, msg |-> libzfs_error_description(slot.code)]

\* Error::Zfs / Error::Sys
ErrorZfs(z) == [kind |-> "Zfs", code |-> z.code, msg |-> z.msg, errno |-> 0]
ErrorSys(slot) == [kind |-> "Sys", code |-> "", msg |-> "", errno |-> slot.errno]

\* get_last_error without its test of the code
get_last_error_always_zfs(slot) == ErrorZfs(last_error(slot))

\* LibZfs::get_last_error
get_last_error(slot) ==
    IF last_error(slot).code # EZFS_UNKNOWN
    THEN ErrorZfs(last_error(slot))
    ELSE ErrorSys(slot)

\* LibZfs::ptr_or_err
ptr_or_err(ptr, slot) ==
    IF ptr = NULL
    THEN [ok |-> FALSE, err |-> get_last_error(slot), calls |-> LastErrorCalls]
    ELSE [ok |-> TRUE, err |-> NoError, calls |-> <<>>]

\* impl From<ZfsError> for Error, as used by `ZfsError::last_error(..).into()`
FromZfsError(slot) == ErrorZfs(last_error(slot))

\* What an error lookup finds: the library's error code and the OS errno.
\* A failing call of the library leaves one of FailSlots; a lookup that
\* follows no such call finds whatever was left before, one of Slots.
Slots == [code : Codes, errno : Errnos]
FailSlots == [code : FailCodes, errno : Errnos]
\* the enumerations never look at errno: one value stands for it there
IterSlots == [code : FailCodes, errno : {2}]
NoSlot == [code |-> EZFS_SUCCESS, errno |-> 0]

Ok(op, vec) == [op |-> op, ok |-> TRUE, err |-> NoError, vec |-> vec]
Err(op, e) == [op |-> op, ok |-> FALSE, err |-> e, vec |-> <<>>]

\* what the operation before the last one yielded, where that is recorded
NoBefore == [op |-> "none", ok |-> TRUE, names |-> <<>>]

\* the native side of an operation: the context's state when it ran, the
\* handles the native iterator delivered and their types, the handles the
\* user callback was invoked with, the error slot a failing call left, the
\* names a batch operation was given and what nvlist_alloc returned to it,
\* the snapshot behind each delivered handle
Native(delivered, types, cb, slot) ==
    [ctx |-> libzfs, delivered |-> delivered, types |-> types, cb |-> cb,
     slot |-> slot, names |-> <<>>, alloc |-> 0, snap |-> <<>>,
     before |-> NoBefore]
NoIter == Native(<<>>, <<>>, <<>>, NoSlot)

(* ------------------------- owned handle objects ----------------------- *)
\* impl Drop for Dataset: the native calls dropping one Dataset makes
Dataset_drop(handle) == <<Call("zfs_close", handle)>>

\* impl Drop for ZPool
ZPool_drop(handle) == <<Call("zpool_close", handle)>>

\* dropping a Vec<Dataset> / Vec<ZPool> drops its elements in order
RECURSIVE DropDatasets(_)
DropDatasets(vec) ==
    IF vec = <<>> THEN <<>> ELSE Dataset_drop(Head(vec)) \o DropDatasets(Tail(vec))

RECURSIVE DropZPools(_)
DropZPools(vec) ==
    IF vec = <<>> THEN <<>> ELSE ZPool_drop(Head(vec)) \o DropZPools(Tail(vec))

\* The state after an operation that made the native calls tr, returned res,
\* built Dataset objects around the handles newDs and ZPool objects around
\* newPools, of which the objects in keptDs and keptPools outlive it, and
\* dropped the pre-existing objects in goneDs and gonePools.  The close
\* counters follow the close calls actually made.
Commit(tr, res, lst, newDs, keptDs, goneDs, newPools, keptPools, gonePools) ==
    /\ trace' = tr
    /\ result' = res
    /\ last' = lst
    /\ zfsWrapped' = BumpAll(zfsWrapped, newDs)
    /\ datasets' = DropAll(BumpAll(datasets, keptDs), goneDs)
    /\ zfsClosed' = BumpAll(zfsClosed, HandlesOf(tr, "zfs_close"))
    /\ zpoolWrapped' = BumpAll(zpoolWrapped, newPools)
    /\ zpools' = DropAll(BumpAll(zpools, keptPools), gonePools)
    /\ zpoolClosed' = BumpAll(zpoolClosed, HandlesOf(tr, "zpool_close"))
    /\ UNCHANGED <<snaps, safe>>

\* the library makes dataset handles only with a pool handle of its own
\* behind them, opened with the first one and kept in its cache
CanMakeZfs(n) ==
    /\ zfsNext + n <= MaxZfs
    /\ n > 0 /\ poolCache = NULL => zpoolNext < MaxZpool
MakeZfs(n) ==
    /\ zfsNext' = zfsNext + n
    /\ IF n > 0 /\ poolCache = NULL
       THEN poolCache' = zpoolNext + 1 /\ zpoolNext' = zpoolNext + 1
       ELSE UNCHANGED <<poolCache, zpoolNext>>

(* ------------------------------- Init --------------------------------- *)
Init ==
    /\ libzfs = "none"
    /\ libzfsHandle = NULL
    /\ finiCalls = 0
    /\ zfsNext = 0
    /\ zpoolNext = 0
    /\ poolCache = NULL
    /\ datasets = [h \in 0..MaxZfs |-> 0]
    /\ zpools = [h \in 0..MaxZpool |-> 0]
    /\ zfsWrapped = [h \in 0..MaxZfs |-> 0]
    /\ zfsClosed = [h \in 0..MaxZfs |-> 0]
    /\ zpoolWrapped = [h \in 0..MaxZpool |-> 0]
    /\ zpoolClosed = [h \in 0..MaxZpool |-> 0]
    /\ trace = <<>>
    /\ result = Ok("none", <<>>)
    /\ last = [ctx |-> "none", delivered |-> <<>>, types |-> <<>>, cb |-> <<>>,
               slot |-> NoSlot, names |-> <<>>, alloc |-> 0, snap |-> <<>>,
               before |-> NoBefore]
    /\ snaps = <<>>
    /\ safe = NoSafe

(* --------------------------- Library Context -------------------------- *)
\* the context handle libzfs_init returns when it succeeds
InitHandle == 1

\* LibZfs::new without its test of the handle
new_unchecked(handle, slot) == Ok("new", <<handle>>)

\* LibZfs::new: the LibZfs it returns owns the handle libzfs_init returned;
\* on a null handle it returns Error::Sys of the last OS error
new(handle, slot) ==
    IF handle = NULL
    THEN Err("new", ErrorSys(slot))
    ELSE Ok("new", <<handle>>)

New ==
    /\ libzfs = "none"
    /\ \E handle \in {NULL, InitHandle} :
       \E e \in (IF handle = NULL THEN Errnos ELSE {0}) :
        LET slot == [code |-> EZFS_SUCCESS, errno |-> e]
            res == new(handle, slot)
        IN  /\ libzfs' = IF res.ok THEN "live" ELSE libzfs
            /\ libzfsHandle' = IF res.ok THEN res.vec[1] ELSE libzfsHandle
            /\ Commit(<<Call("libzfs_init", NULL)>>, res,
                      Native(<<handle>>, <<>>, <<>>, slot),
                      <<>>, <<>>, <<>>, <<>>, <<>>, <<>>)
    /\ UNCHANGED <<finiCalls, zfsNext, zpoolNext, poolCache>>

\* impl Drop for LibZfs
LibZfs_drop(handle) == <<Call("libzfs_fini", handle)>>
DropLibZfs ==
    /\ libzfs = "live"
    /\ libzfs' = "dropped"
    /\ finiCalls' = finiCalls + Len(HandlesOf(LibZfs_drop(libzfsHandle), "libzfs_fini"))
    /\ Commit(LibZfs_drop(libzfsHandle), Ok("drop_libzfs", <<>>), NoIter,
              <<>>, <<>>, <<>>, <<>>, <<>>, <<>>)
    /\ UNCHANGED <<libzfsHandle, zfsNext, zpoolNext, poolCache>>

\* LibZfs::pool_by_name
PoolByName ==
    /\ libzfs = "live"
    /\ \E handle \in {NULL, zpoolNext + 1} :
      \E slot \in (IF handle = NULL THEN FailSlots ELSE {NoSlot}) :
        LET r == ptr_or_err(handle, slot)
            tr == <<CallStr("zpool_open", NULL, CStrRead(as_ptr(PoolName)))>> \o r.calls
        IN  IF r.ok
            THEN /\ handle \in ZpoolHandles
                 /\ zpoolNext' = zpoolNext + 1
                 /\ Commit(tr, Ok("pool_by_name", <<handle>>), Native(<<handle>>, <<>>, <<>>, NoSlot),
                           <<>>, <<>>, <<>>, <<handle>>, <<handle>>, <<>>)
            ELSE /\ zpoolNext' = zpoolNext
                 /\ Commit(tr, Err("pool_by_name", r.err), Native(<<handle>>, <<>>, <<>>, slot),
                           <<>>, <<>>, <<>>, <<>>, <<>>, <<>>)
    /\ UNCHANGED <<libzfs, libzfsHandle, finiCalls, zfsNext, poolCache>>

\* LibZfs::dataset_by_name
DatasetByName ==
    /\ libzfs = "live"
    /\ \E handle \in {NULL, zfsNext + 1} :
      \E slot \in (IF handle = NULL THEN FailSlots ELSE {NoSlot}) :
        LET r == ptr_or_err(handle, slot)
            tr == <<CallStr("zfs_open", NULL, CStrRead(as_ptr(PoolName)))>> \o r.calls
        IN  IF r.ok
            THEN /\ CanMakeZfs(1)
                 /\ MakeZfs(1)
                 /\ Commit(tr, Ok("dataset_by_name", <<handle>>), Native(<<handle>>, <<>>, <<>>, NoSlot),
                           <<handle>>, <<handle>>, <<>>, <<>>, <<>>, <<>>)
            ELSE /\ UNCHANGED <<zfsNext, zpoolNext, poolCache>>
                 /\ Commit(tr, Err("dataset_by_name", r.err), Native(<<handle>>, <<>>, <<>>, slot),
                           <<>>, <<>>, <<>>, <<>>, <<>>, <<>>)
    /\ UNCHANGED <<libzfs, libzfsHandle, finiCalls>>

(* --------------------------- Batch Operations ------------------------- *)
\* the name lists a batch operation is given
NameLists == UNION {[1..k -> Texts] : k \in 0..MaxNames}

\* nvlist_alloc(.., NV_UNIQUE_NAME, ..) makes a name-set in which adding a
\* name that is present replaces the entry
nvlist_add(nvl, key) == SelectSeq(nvl, LAMBDA k : k # key) \o <<key>>

\* nvlist_empty: B_TRUE for a name-set without entries
nvlist_empty(nvl) == IF nvl = <<>> THEN 1 ELSE 0

\* the loop body of build_nvlist: the bytes handed to fnvlist_add_boolean
cstr(name) == name \o <<NUL>>

RECURSIVE AddNames(_, _)
\* the loop of build_nvlist: the name-set after adding each name
AddNames(nvl, names) ==
    IF names = <<>> THEN nvl
    ELSE AddNames(nvlist_add(nvl, CStrRead(cstr(Head(names)))), Tail(names))

RECURSIVE AddCalls(_)
AddCalls(names) ==
    IF names = <<>> THEN <<>>
    ELSE <<CallStr("fnvlist_add_boolean", NULL, CStrRead(cstr(Head(names))))>>
         \o AddCalls(Tail(names))

\* LibZfs::build_nvlist.  nvlist_alloc is no call of the library: when it
\* fails the error lookup finds the slot as it was (stale).
build_nvlist(names, allocRet, stale) ==
    IF 0 # allocRet
    THEN [ok |-> FALSE, err |-> get_last_error(stale), nvl |-> <<>>,
          calls |-> <<Call("nvlist_alloc", NULL)>> \o LastErrorCalls]
    ELSE [ok |-> TRUE, err |-> NoError, nvl |-> AddNames(<<>>, names),
          calls |-> <<Call("nvlist_alloc", NULL)>> \o AddCalls(names)]

\* a match that calls the native batch function whatever nvlist_empty says
nonempty_arm_always(empty) == TRUE

\* the arm `0 =>` of the match on nvlist_empty: the native batch function
\* is called for a name-set that is not empty
nonempty_arm(empty) == empty = 0

\* an exit that forgets the name-set
free_nvlist_forgotten(nvl) == <<>>

\* `unsafe { sys::nvlist_free(nvl) }` before the operation returns
free_nvlist(nvl) == <<CallNvl("nvlist_free", nvl)>>

\* LibZfs::create_snapshots and LibZfs::destroy_snapshots, which differ in the
\* native batch function fn: the value returned and the native calls made
batch(op, fn, names, allocRet, ret, slot, stale) ==
    LET b == build_nvlist(names, allocRet, stale)
        empty == nvlist_empty(b.nvl)
    IN  IF ~b.ok
        THEN [res |-> Err(op, b.err), calls |-> b.calls]
        ELSE [res |-> IF nonempty_arm(empty)
                      THEN (IF 0 # ret THEN Err(op, get_last_error(slot)) ELSE Ok(op, <<>>))
                      ELSE Ok(op, <<>>),
              calls |-> b.calls
                        \o <<CallNvl("nvlist_empty", b.nvl)>>
                        \o (IF nonempty_arm(empty)
                            THEN <<CallNvl(fn, b.nvl)>>
                                 \o (IF 0 # ret THEN LastErrorCalls ELSE <<>>)
                            ELSE <<>>)
                        \o free_nvlist(b.nvl)]

create_snapshots(names, allocRet, ret, slot, stale) ==
    batch("create_snapshots", "zfs_snapshot_nvl", names, allocRet, ret, slot, stale)

destroy_snapshots(names, allocRet, ret, slot, stale) ==
    batch("destroy_snapshots", "zfs_destroy_snaps_nvl", names, allocRet, ret, slot, stale)

\* the error slot the operation's lookup found, if it made one
SlotRead(res, allocRet, slot, stale) ==
    IF res.ok THEN NoSlot ELSE IF 0 # allocRet THEN stale ELSE slot

CreateSnapshots ==
    /\ libzfs = "live"
    /\ \E names \in NameLists, allocRet \in {0, 12} :
       \E ret \in (IF allocRet = 0 THEN Rets ELSE {0}) :
       \E slot \in (IF ret = 0 THEN {NoSlot} ELSE FailSlots),
          stale \in (IF allocRet = 0 THEN {NoSlot} ELSE Slots) :
        LET r == create_snapshots(names, allocRet, ret, slot, stale)
        IN  Commit(r.calls, r.res,
                   [Native(<<>>, <<>>, <<>>, SlotRead(r.res, allocRet, slot, stale))
                        EXCEPT !.names = names, !.alloc = allocRet],
                   <<>>, <<>>, <<>>, <<>>, <<>>, <<>>)
    /\ UNCHANGED <<libzfs, libzfsHandle, finiCalls, zfsNext, zpoolNext, poolCache>>

DestroySnapshots ==
    /\ libzfs = "live"
    /\ \E names \in NameLists, allocRet \in {0, 12} :
       \E ret \in (IF allocRet = 0 THEN Rets ELSE {0}) :
       \E slot \in (IF ret = 0 THEN {NoSlot} ELSE FailSlots),
          stale \in (IF allocRet = 0 THEN {NoSlot} ELSE Slots) :
        LET r == destroy_snapshots(names, allocRet, ret, slot, stale)
        IN  Commit(r.calls, r.res,
                   [Native(<<>>, <<>>, <<>>, SlotRead(r.res, allocRet, slot, stale))
                        EXCEPT !.names = names, !.alloc = allocRet],
                   <<>>, <<>>, <<>>, <<>>, <<>>, <<>>)
    /\ UNCHANGED <<libzfs, libzfsHandle, finiCalls, zfsNext, zpoolNext, poolCache>>

\* LibZfs::get_zpools, its trampoline zpool_iter_collect and its result
zpool_iter_collect(pools, handle) == Append(pools, handle)

RECURSIVE ZpoolIter(_, _)
\* zpool_iter: one trampoline call per pool handle, in delivery order
ZpoolIter(pools, hs) ==
    IF hs = <<>> THEN pools ELSE ZpoolIter(zpool_iter_collect(pools, Head(hs)), Tail(hs))

get_zpools_result(ret, pools, slot) ==
    IF ret = 0 THEN Ok("get_zpools", pools) ELSE Err("get_zpools", FromZfsError(slot))

GetZpools ==
    /\ libzfs = "live"
    /\ \E n \in 0..MaxDeliver, ret \in Rets :
        /\ zpoolNext + n <= MaxZpool
        /\ zpoolNext' = zpoolNext + n
        /\ \E slot \in (IF ret = 0 THEN {NoSlot} ELSE IterSlots) :
            LET hs == Fresh(zpoolNext, n)
                pools == ZpoolIter(<<>>, hs)
                res == get_zpools_result(ret, pools, slot)
                tr == <<Call("zpool_iter", NULL)>>
                      \o (IF ret = 0 THEN <<>> ELSE LastErrorCalls)
                      \o (IF res.ok THEN <<>> ELSE DropZPools(pools))
            IN  Commit(tr, res, Native(hs, <<>>, <<>>, slot),
                       <<>>, <<>>, <<>>, pools, res.vec, <<>>)
    /\ UNCHANGED <<libzfs, libzfsHandle, finiCalls, zfsNext, poolCache>>

(* ------------------------- the collect trampoline --------------------- *)
\* zfs_iter_collect without its push: the handle is wrapped by nothing
zfs_iter_collect_leak(vec, handle) == vec

\* a trampoline that puts each handle in front of those before it
zfs_iter_collect_front(vec, handle) == <<handle>> \o vec

\* the trampoline zfs_iter_collect: wrap the handle, push it
zfs_iter_collect(vec, handle) == Append(vec, handle)

RECURSIVE ZfsIterCollect(_, _)
\* a native dataset iterator run with zfs_iter_collect: one trampoline call
\* per handle, in delivery order
ZfsIterCollect(vec, hs) ==
    IF hs = <<>> THEN vec ELSE ZfsIterCollect(zfs_iter_collect(vec, Head(hs)), Tail(hs))

(* ------------------------------ Pool Handle --------------------------- *)
\* impl Drop for ZPool, run when the owner lets a ZPool go
DropZPool ==
    \E p \in ZpoolHandles :
        /\ zpools[p] > 0
        /\ Commit(ZPool_drop(p), Ok("drop_zpool", <<>>), NoIter,
                  <<>>, <<>>, <<>>, <<>>, <<>>, <<p>>)
        /\ UNCHANGED <<libzfs, libzfsHandle, finiCalls, zfsNext, zpoolNext, poolCache>>

\* Dataset::get_type: DatasetType::from(zfs_get_type(handle)) maps each
\* native type to the variant of the same name
get_type(typ) == typ

\* a closure that rejects snapshots only
retain_pred_snapshots(typ) == get_type(typ) # Snapshot

\* the closure given to retain in ZPool::get_datasets
retain_pred(typ) ==
    IF get_type(typ) = Bookmark \/ get_type(typ) = Snapshot THEN FALSE ELSE TRUE

RECURSIVE Retain(_, _)
\* Vec::retain over the Datasets vec, whose native types are types: what stays
Retain(vec, types) ==
    IF vec = <<>> THEN <<>>
    ELSE (IF retain_pred(Head(types)) THEN <<Head(vec)>> ELSE <<>>)
         \o Retain(Tail(vec), Tail(types))

RECURSIVE RetainCalls(_, _)
\* ... and the native calls it makes: the type query of each element, and the
\* drop of each element the closure rejects
RetainCalls(vec, types) ==
    IF vec = <<>> THEN <<>>
    ELSE <<Call("zfs_get_type", Head(vec))>>
         \o (IF retain_pred(Head(types)) THEN <<>> ELSE Dataset_drop(Head(vec)))
         \o RetainCalls(Tail(vec), Tail(types))

\* the tail of ZPool::get_datasets
get_datasets_result(ret, vec, slot) ==
    IF ret = 0 THEN Ok("get_datasets", vec) ELSE Err("get_datasets", FromZfsError(slot))

\* ZPool::get_datasets
GetDatasets ==
    \E p \in ZpoolHandles :
        /\ zpools[p] > 0
        /\ \E root_handle \in {NULL, zfsNext + 1} :
            IF root_handle = NULL
            THEN \E slot \in IterSlots :
                /\ Commit(<<Call("zpool_get_name", p),
                            CallStr("zfs_open", NULL, CStrRead(as_ptr(PoolName)))>>
                          \o LastErrorCalls,
                          Err("get_datasets", FromZfsError(slot)),
                          Native(<<>>, <<>>, <<>>, slot),
                          <<>>, <<>>, <<>>, <<>>, <<>>, <<>>)
                /\ UNCHANGED <<zfsNext, zpoolNext, poolCache>>
            ELSE \E n \in 0..MaxDeliver, ret \in Rets :
                /\ CanMakeZfs(1 + n)
                /\ MakeZfs(1 + n)
                /\ \E tys \in [1..n -> HandleTypes],
                      slot \in (IF ret = 0 THEN {NoSlot} ELSE IterSlots) :
                    LET hs == Fresh(root_handle, n)
                        vec == ZfsIterCollect(<<root_handle>>, hs)
                        types == <<Filesystem>> \o tys
                        kept == Retain(vec, types)
                        res == get_datasets_result(ret, kept, slot)
                        tr == <<Call("zpool_get_name", p),
                                CallStr("zfs_open", NULL, CStrRead(as_ptr(PoolName))),
                                Call("zfs_iter_dependents", root_handle)>>
                              \o RetainCalls(vec, types)
                              \o (IF ret = 0 THEN <<>> ELSE LastErrorCalls)
                              \o (IF res.ok THEN <<>> ELSE DropDatasets(kept))
                    IN  Commit(tr, res, Native(hs, tys, <<>>, slot),
                               vec, res.vec, <<>>, <<>>, <<>>, <<>>)
        /\ UNCHANGED <<libzfs, libzfsHandle, finiCalls>>

(* ----------------------------- Dataset Handle ------------------------- *)
\* impl Drop for Dataset, run when the owner lets a Dataset go
DropDataset ==
    \E h \in 0..MaxZfs :
        /\ datasets[h] > 0
        /\ Commit(Dataset_drop(h), Ok("drop_dataset", <<>>), NoIter,
                  <<>>, <<>>, <<h>>, <<>>, <<>>, <<>>)
        /\ UNCHANGED <<libzfs, libzfsHandle, finiCalls, zfsNext, zpoolNext, poolCache>>

\* zfs_get_pool_handle: the pool handle the library keeps behind a dataset
\* handle; it opens none
zfs_get_pool_handle(h) == poolCache

\* Dataset::get_pool: the ZPool it builds
get_pool(h) == zfs_get_pool_handle(h)

GetPool ==
    \E h \in ZfsHandles :
        /\ datasets[h] > 0
        /\ zpoolWrapped[get_pool(h)] < MaxWraps
        /\ Commit(<<Call("zfs_get_pool_handle", h)>>, Ok("get_pool", <<get_pool(h)>>),
                  NoIter,
                  <<>>, <<>>, <<>>, <<get_pool(h)>>, <<get_pool(h)>>, <<>>)
        /\ UNCHANGED <<libzfs, libzfsHandle, finiCalls, zfsNext, zpoolNext, poolCache>>

\* impl Clone for Dataset: the Dataset it builds around what zfs_handle_dup
\* returned
clone(dup) == dup

CloneDataset ==
    \E h \in ZfsHandles :
        /\ datasets[h] > 0
        /\ \E dup \in {NULL, zfsNext + 1} :
            /\ IF dup = NULL
               THEN zfsWrapped[NULL] < MaxNullDups /\ UNCHANGED <<zfsNext, zpoolNext, poolCache>>
               ELSE CanMakeZfs(1) /\ MakeZfs(1)
            /\ Commit(<<Call("zfs_handle_dup", h)>>, Ok("clone", <<clone(dup)>>),
                      Native(<<dup>>, <<>>, <<>>, NoSlot),
                      <<clone(dup)>>, <<clone(dup)>>, <<>>, <<>>, <<>>, <<>>)
        /\ UNCHANGED <<libzfs, libzfsHandle, finiCalls>>

\* a tail that hands out what was collected whatever the native status
collect_result_partial(op, ret, vec, slot) == Ok(op, vec)

\* the tail of every collect-mode enumeration of Dataset
collect_result(op, ret, vec, slot) ==
    IF ret = 0 THEN Ok(op, vec) ELSE Err(op, FromZfsError(slot))

\* get_snapshots, get_snapshots_ordered, get_child_filesystems and
\* get_all_dependents differ in the native iterator they call
Collect(op, fn) ==
    \E h \in ZfsHandles :
        /\ datasets[h] > 0
        /\ \E n \in 0..MaxDeliver, ret \in Rets :
            /\ CanMakeZfs(n)
            /\ MakeZfs(n)
            /\ \E slot \in (IF ret = 0 THEN {NoSlot} ELSE IterSlots) :
                LET hs == Fresh(zfsNext, n)
                    vec == ZfsIterCollect(<<>>, hs)
                    res == collect_result(op, ret, vec, slot)
                    tr == <<Call(fn, h)>>
                          \o (IF ret = 0 THEN <<>> ELSE LastErrorCalls)
                          \o (IF res.ok THEN <<>> ELSE DropDatasets(vec))
                IN  Commit(tr, res, Native(hs, <<>>, <<>>, slot),
                           vec, res.vec, <<>>, <<>>, <<>>, <<>>)
        /\ UNCHANGED <<libzfs, libzfsHandle, finiCalls>>

GetSnapshots == Collect("get_snapshots", "zfs_iter_snapshots")
GetSnapshotsOrdered == Collect("get_snapshots_ordered", "zfs_iter_snapshots_sorted")
GetChildFilesystems == Collect("get_child_filesystems", "zfs_iter_filesystems")
GetAllDependents == Collect("get_all_dependents", "zfs_iter_dependents")

\* a trampoline that calls no callback
zfs_iter_callback_skip(cb, handle) == cb

\* a trampoline that hands the handles over last first
zfs_iter_callback_front(cb, handle) == <<handle>> \o cb

\* the trampoline zfs_iter_callback: wrap the handle, hand it to the callback
zfs_iter_callback(cb, handle) == Append(cb, handle)

RECURSIVE ZfsIterCallback(_, _)
ZfsIterCallback(cb, hs) ==
    IF hs = <<>> THEN cb ELSE ZfsIterCallback(zfs_iter_callback(cb, Head(hs)), Tail(hs))

\* the tail of foreach_snapshot and foreach_snapshot_ordered
foreach_result(op, ret, slot) ==
    IF ret = 0 THEN Ok(op, <<>>) ELSE Err(op, FromZfsError(slot))

\* The callback owns each Dataset it is given: it keeps it (keep) or lets it
\* go when it returns, which closes the handle while the iterator runs.
Foreach(op, fn) ==
    \E h \in ZfsHandles :
        /\ datasets[h] > 0
        /\ \E n \in 0..MaxDeliver, ret \in Rets :
            /\ CanMakeZfs(n)
            /\ MakeZfs(n)
            /\ \E keep \in SUBSET (1..n), slot \in (IF ret = 0 THEN {NoSlot} ELSE IterSlots) :
                LET hs == Fresh(zfsNext, n)
                    cb == ZfsIterCallback(<<>>, hs)
                    kept == SelectSeq(cb, LAMBDA x : x - zfsNext \in keep)
                    gone == SelectSeq(cb, LAMBDA x : x - zfsNext \notin keep)
                    tr == DropDatasets(gone) \o <<Call(fn, h)>>
                          \o (IF ret = 0 THEN <<>> ELSE LastErrorCalls)
                IN  Commit(tr, foreach_result(op, ret, slot),
                           Native(hs, <<>>, cb, slot),
                           cb, kept, <<>>, <<>>, <<>>, <<>>)
        /\ UNCHANGED <<libzfs, libzfsHandle, finiCalls>>

ForeachSnapshot == Foreach("foreach_snapshot", "zfs_iter_snapshots")
ForeachSnapshotOrdered == Foreach("foreach_snapshot_ordered", "zfs_iter_snapshots_sorted")

(* ------------------ the snapshots of one dataset, enumerated ----------- *)
\* the dataset whose snapshots are enumerated: the first handle opened
SnapParent == 1

\* handles enough for the open by name and two enumerations of every snapshot
IterZfs == SnapParent + 2 * MaxSnaps

\* the snapshots as the native library walks them: each has a name of its
\* own and a creation time
Snapshots == [i \in 1..Len(snaps) |-> [name |-> i, creation |-> snaps[i]]]

\* zfs_iter_snapshots delivers the snapshots in the order of its walk
zfs_iter_snapshots == Snapshots

\* zfs_iter_snapshots_sorted delivers them oldest first, and by name those
\* of one creation time
zfs_snapshot_compare(a, b) ==
    \/ a.creation < b.creation
    \/ a.creation = b.creation /\ a.name < b.name

RECURSIVE SortedInsert(_, _)
SortedInsert(sorted, s) ==
    IF sorted = <<>> THEN <<s>>
    ELSE IF zfs_snapshot_compare(s, Head(sorted)) THEN <<s>> \o sorted
    ELSE <<Head(sorted)>> \o SortedInsert(Tail(sorted), s)

RECURSIVE SortSnapshots(_)
SortSnapshots(ss) ==
    IF ss = <<>> THEN <<>> ELSE SortedInsert(SortSnapshots(Tail(ss)), Head(ss))

zfs_iter_snapshots_sorted == SortSnapshots(Snapshots)

\* the snapshot behind a handle the last enumeration delivered
Behind(lst, h) ==
    lst.snap[CHOOSE i \in 1..Len(lst.delivered) : lst.delivered[i] = h]

\* Dataset::get_name of a Dataset around such a handle
get_name(lst, h) == Behind(lst, h).name

\* the callback-mode enumerations and the enumerations of snapshots
ForeachOps == {"foreach_snapshot", "foreach_snapshot_ordered"}
SnapshotOps == ForeachOps \cup {"get_snapshots", "get_snapshots_ordered"}

\* the Datasets an enumeration of snapshots yielded: those it returned, or
\* those it gave to the callback
Yielded(res, lst) == IF res.op \in ForeachOps THEN lst.cb ELSE res.vec

\* their names, in order
YieldedNames(res, lst) ==
    [i \in 1..Len(Yielded(res, lst)) |-> get_name(lst, Yielded(res, lst)[i])]

\* what an operation yielded, kept for the operation after it
Outcome(res, lst) ==
    IF res.op \in SnapshotOps
    THEN [op |-> res.op, ok |-> res.ok, names |-> YieldedNames(res, lst)]
    ELSE [op |-> res.op, ok |-> res.ok, names |-> <<>>]

\* a state with the context made and the dataset opened by name, for every
\* set of snapshots the dataset may have
InitIter ==
    /\ libzfs = "live"
    /\ libzfsHandle = InitHandle
    /\ finiCalls = 0
    /\ zfsNext = SnapParent
    /\ zpoolNext = 1
    /\ poolCache = 1
    /\ datasets = [h \in 0..IterZfs |-> IF h = SnapParent THEN 1 ELSE 0]
    /\ zpools = [h \in 0..MaxZpool |-> 0]
    /\ zfsWrapped = [h \in 0..IterZfs |-> IF h = SnapParent THEN 1 ELSE 0]
    /\ zfsClosed = [h \in 0..IterZfs |-> 0]
    /\ zpoolWrapped = [h \in 0..MaxZpool |-> 0]
    /\ zpoolClosed = [h \in 0..MaxZpool |-> 0]
    /\ trace = <<CallStr("zfs_open", NULL, CStrRead(as_ptr(PoolName)))>>
    /\ result = Ok("dataset_by_name", <<SnapParent>>)
    /\ last = Native(<<SnapParent>>, <<>>, <<>>, NoSlot)
    /\ snaps \in UNION {[1..n -> 1..MaxTime] : n \in 0..MaxSnaps}
    /\ safe = NoSafe

\* two enumerations have run: each is compared with the one before it, and
\* a behaviour is followed no further
EnumeratedTwice == last.before.op \in SnapshotOps

\* the error slot a failing enumeration of snapshots leaves
SnapshotsFailSlot == [code |-> EZFS_NOENT, errno |-> 2]

\* get_snapshots and get_snapshots_ordered of that dataset: the native
\* iterator fn delivers the snapshots in order, all of them when it returns
\* zero and some first ones when it fails
SnapshotsCollect(op, fn, order) ==
    /\ datasets[SnapParent] > 0
    /\ ~EnumeratedTwice
    /\ \E ret \in Rets :
       \E k \in (IF ret = 0 THEN {Len(order)} ELSE 0..Len(order)),
          slot \in (IF ret = 0 THEN {NoSlot} ELSE {SnapshotsFailSlot}) :
        /\ zfsNext + k <= IterZfs
        /\ MakeZfs(k)
        /\ LET hs == Fresh(zfsNext, k)
               vec == ZfsIterCollect(<<>>, hs)
               res == collect_result(op, ret, vec, slot)
               tr == <<Call(fn, SnapParent)>>
                     \o (IF ret = 0 THEN <<>> ELSE LastErrorCalls)
                     \o (IF res.ok THEN <<>> ELSE DropDatasets(vec))
           IN  Commit(tr, res,
                      [Native(hs, <<>>, <<>>, slot)
                           EXCEPT !.snap = SubSeq(order, 1, k),
                                  !.before = Outcome(result, last)],
                      vec, res.vec, <<>>, <<>>, <<>>, <<>>)
    /\ UNCHANGED <<libzfs, libzfsHandle, finiCalls>>

\* foreach_snapshot and foreach_snapshot_ordered of that dataset, with a
\* callback that keeps every Dataset it is given or none
SnapshotsForeach(op, fn, order) ==
    /\ datasets[SnapParent] > 0
    /\ ~EnumeratedTwice
    /\ \E ret \in Rets :
       \E k \in (IF ret = 0 THEN {Len(order)} ELSE 0..Len(order)),
          slot \in (IF ret = 0 THEN {NoSlot} ELSE {SnapshotsFailSlot}) :
        /\ zfsNext + k <= IterZfs
        /\ MakeZfs(k)
        /\ \E keep \in {{}, 1..k} :
            LET hs == Fresh(zfsNext, k)
                cb == ZfsIterCallback(<<>>, hs)
                kept == SelectSeq(cb, LAMBDA x : x - zfsNext \in keep)
                gone == SelectSeq(cb, LAMBDA x : x - zfsNext \notin keep)
                tr == DropDatasets(gone) \o <<Call(fn, SnapParent)>>
                      \o (IF ret = 0 THEN <<>> ELSE LastErrorCalls)
            IN  Commit(tr, foreach_result(op, ret, slot),
                       [Native(hs, <<>>, cb, slot)
                            EXCEPT !.snap = SubSeq(order, 1, k),
                                   !.before = Outcome(result, last)],
                       cb, kept, <<>>, <<>>, <<>>, <<>>)
    /\ UNCHANGED <<libzfs, libzfsHandle, finiCalls>>

SnapshotsGet ==
    SnapshotsCollect("get_snapshots", "zfs_iter_snapshots", zfs_iter_snapshots)
SnapshotsGetOrdered ==
    SnapshotsCollect("get_snapshots_ordered", "zfs_iter_snapshots_sorted",
                     zfs_iter_snapshots_sorted)
SnapshotsEach ==
    SnapshotsForeach("foreach_snapshot", "zfs_iter_snapshots", zfs_iter_snapshots)
SnapshotsEachOrdered ==
    SnapshotsForeach("foreach_snapshot_ordered", "zfs_iter_snapshots_sorted",
                     zfs_iter_snapshots_sorted)

(* ------------------------- Safe String, operations -------------------- *)
\* everything but the SafeString
objectVars == <<libzfs, libzfsHandle, finiCalls, zfsNext, zpoolNext, poolCache,
                datasets, zpools, zfsWrapped, zfsClosed, zpoolWrapped,
                zpoolClosed, trace, result, last, snaps>>

\* SafeString::from(text); after a panic the program does no more
FromString ==
    /\ safe.state # "panicked"
    /\ \E s \in HostTexts : safe' = From_String(s)
    /\ UNCHANGED objectVars

\* the text view of the SafeString
AsRefStr ==
    /\ safe.state \in {"built", "viewed"}
    /\ safe' = [safe EXCEPT !.state = "viewed", !.view = as_ref(safe)]
    /\ UNCHANGED objectVars

\* String::from(safe_string) takes the SafeString and gives its text
IntoString ==
    /\ safe.state \in {"built", "viewed"}
    /\ safe' = [safe EXCEPT !.state = "consumed", !.inner = <<>>,
                            !.view = Into_String(safe)]
    /\ UNCHANGED objectVars

Next ==
    \/ New
    \/ DropLibZfs
    \/ PoolByName
    \/ DatasetByName
    \/ GetZpools
    \/ DropZPool
    \/ GetDatasets
    \/ DropDataset
    \/ GetPool
    \/ CloneDataset
    \/ GetSnapshots
    \/ GetSnapshotsOrdered
    \/ GetChildFilesystems
    \/ GetAllDependents
    \/ ForeachSnapshot
    \/ ForeachSnapshotOrdered

Spec == Init /\ [][Next]_vars

\* The batch operations read and write no handle and no object: they are
\* explored on their own, over every name list, from the context alone.
NextBatch ==
    \/ New
    \/ CreateSnapshots
    \/ DestroySnapshots
    \/ DropLibZfs

SpecBatch == Init /\ [][NextBatch]_vars

\* The enumerations of the snapshots of one dataset, in both modes and both
\* orders, one after another over the same snapshots.
NextIter ==
    \/ SnapshotsGet
    \/ SnapshotsGetOrdered
    \/ SnapshotsEach
    \/ SnapshotsEachOrdered

SpecIter == InitIter /\ [][NextIter]_vars

\* SafeString, built from every host text and converted back.
NextString ==
    \/ FromString
    \/ AsRefStr
    \/ IntoString

SpecString == Init /\ [][NextString]_vars

(* ------------------------------- claims ------------------------------- *)
\* C1: every native dataset handle handed to the binding is wrapped by
\* exactly one Dataset object, and zfs_close is called on it exactly once,
\* when that object is dropped: a handle handed out is either held by its one
\* live Dataset and not closed, or closed once and held by none.
C1_DatasetHandleClosedOnce ==
    \A h \in ZfsHandles :
        IF h <= zfsNext
        THEN /\ zfsWrapped[h] = 1
             /\ datasets[h] + zfsClosed[h] = 1
             /\ datasets[h] \in {0, 1}
        ELSE zfsWrapped[h] = 0 /\ datasets[h] = 0 /\ zfsClosed[h] = 0

\* handles from an open by name, an enumeration or a duplication have all
\* been closed by drops, the last of them just now
C1_Witness ==
    /\ zfsNext = MaxZfs
    /\ result.op = "drop_dataset"
    /\ \A h \in ZfsHandles : zfsClosed[h] = 1 /\ datasets[h] = 0

\* C2: every native pool handle wrapped in a ZPool is closed with zpool_close
\* exactly once, none is wrapped by two ZPool objects, and none is closed
\* while a Dataset that refers to it is live.
C2_PoolHandleClosedOnce ==
    \A p \in ZpoolHandles :
        /\ zpoolWrapped[p] <= 1
        /\ zpoolClosed[p] <= 1
        /\ zpools[p] + zpoolClosed[p] = zpoolWrapped[p]
        /\ (zpoolClosed[p] > 0 /\ p = poolCache) => \A h \in ZfsHandles : datasets[h] = 0

\* C3: libzfs_fini runs at most once, and no operation makes a native call
\* on a handle derived from the context after libzfs_fini has run on it.
C3_ContextOutlivesHandles ==
    /\ finiCalls <= 1
    /\ last.ctx = "dropped" => trace = <<>>

\* C4: cloning a live Dataset makes one zfs_handle_dup call and yields a
\* second Dataset owning a handle distinct from the original's; each of the
\* two drops closes its own handle, so every zfs_close is on a handle, once,
\* and a live Dataset always holds a handle that is open.
C4_CloneIndependent ==
    /\ result.op = "clone" =>
        /\ Len(HandlesOf(trace, "zfs_handle_dup")) = 1
        /\ result.vec[1] \in ZfsHandles
        /\ result.vec[1] # trace[1].h
        /\ datasets[result.vec[1]] = 1 /\ datasets[trace[1].h] = 1
    /\ \A h \in 0..MaxZfs : datasets[h] > 0 => h # NULL /\ zfsClosed[h] = 0
    /\ \A h \in 0..MaxZfs : zfsClosed[h] <= (IF h = NULL THEN 0 ELSE 1)

\* C5: when pool_by_name or dataset_by_name gets a null handle from the
\* native open call it returns an Error whose kind follows the error slot:
\* LibraryError with the slot's code and message unless the code is the
\* 'unknown' sentinel, EnvironmentError with the OS errno when it is; the
\* step builds no ZPool and no Dataset.
C5_OpenByNameError ==
    [][(/\ result'.op \in {"pool_by_name", "dataset_by_name"}
        /\ last'.delivered = <<NULL>>)
       => /\ ~result'.ok
          /\ result'.vec = <<>>
          /\ IF last'.slot.code # EZFS_UNKNOWN
             THEN result'.err = [kind |-> "Zfs", code |-> last'.slot.code,
                                 msg |-> libzfs_error_description(last'.slot.code),
                                 errno |-> 0]
             ELSE result'.err = [kind |-> "Sys", code |-> "", msg |-> "",
                                 errno |-> last'.slot.errno]
          /\ UNCHANGED <<datasets, zpools, zfsWrapped, zpoolWrapped>>]_vars

\* an open by name has failed with the 'unknown' code and errno ENOMEM
C5_Witness ==
    /\ result.op = "dataset_by_name"
    /\ last.delivered = <<NULL>>
    /\ last.slot = [code |-> EZFS_UNKNOWN, errno |-> 12]
    /\ result.err.kind = "Sys"

\* C6: after any failing native call (the opens by name, the enumerations,
\* the root open and the enumeration of get_datasets) the returned Error is
\* an EnvironmentError if the error code read is the 'unknown' sentinel and a
\* LibraryError otherwise.
C6_DisambiguationEverywhere ==
    (~result.ok /\ result.op # "new") =>
        IF last.slot.code = EZFS_UNKNOWN
        THEN result.err.kind = "Sys"
        ELSE result.err.kind = "Zfs"

\* the collect-mode enumerations
CollectOps == {"get_zpools", "get_snapshots", "get_snapshots_ordered",
               "get_child_filesystems", "get_all_dependents", "get_datasets"}

\* the handles the last operation collected: those delivered, after the root
\* handle in get_datasets
C7_Collected ==
    IF result.op = "get_datasets"
    THEN HandlesOf(trace, "zfs_iter_dependents") \o last.delivered
    ELSE last.delivered

\* the collected handles have each been closed, in this operation, and no
\* object holds them
C7_AllClosed ==
    LET fn == IF result.op = "get_zpools" THEN "zpool_close" ELSE "zfs_close"
        closed == HandlesOf(trace, fn)
    IN  \A i \in 1..Len(C7_Collected) :
            /\ Cardinality({j \in 1..Len(closed) : closed[j] = C7_Collected[i]}) = 1
            /\ IF result.op = "get_zpools"
               THEN zpools[C7_Collected[i]] = 0 /\ zpoolClosed[C7_Collected[i]] = 1
               ELSE datasets[C7_Collected[i]] = 0 /\ zfsClosed[C7_Collected[i]] = 1

\* the native call failed: a failing call leaves an error slot
C7_Failed == last.slot # NoSlot

\* C7 as first stated: every collect-mode enumeration, get_datasets among
\* them, returns an Error and nothing collected, with every collected handle
\* closed, when the native call returns nonzero; and exactly the delivered
\* handles in delivery order when it returns zero.
C7_CollectAtomic ==
    result.op \in CollectOps =>
        IF C7_Failed
        THEN ~result.ok /\ result.vec = <<>> /\ C7_AllClosed
        ELSE result.ok /\ result.vec = last.delivered

\* the indices of the delivered handles get_datasets keeps
C7_KeptIdx == {i \in 1..Len(last.delivered) : last.types[i] \in {Filesystem, Volume}}

\* C7 as amended: as above, but on success get_datasets returns the root
\* handle followed by the delivered handles that are neither snapshots nor
\* bookmarks, in delivery order (the others it has closed).
C7_CollectAtomicAmended ==
    result.op \in CollectOps =>
        IF C7_Failed
        THEN ~result.ok /\ result.vec = <<>> /\ C7_AllClosed
        ELSE /\ result.ok
             /\ IF result.op # "get_datasets"
                THEN result.vec = last.delivered
                ELSE /\ Len(result.vec) = 1 + Cardinality(C7_KeptIdx)
                     /\ result.vec[1] = trace[3].h
                     /\ \A i \in C7_KeptIdx :
                            result.vec[1 + Cardinality({j \in C7_KeptIdx : j <= i})]
                                = last.delivered[i]

\* an enumeration has failed after delivering two handles
C7_Witness ==
    /\ result.op = "get_all_dependents"
    /\ C7_Failed
    /\ Len(last.delivered) = 2
    /\ HandlesOf(trace, "zfs_close") = last.delivered

\* the batch operations and the native batch functions
BatchOps == {"create_snapshots", "destroy_snapshots"}
BatchFns == {"zfs_snapshot_nvl", "zfs_destroy_snaps_nvl"}

\* C8 as first stated: create_snapshots and destroy_snapshots given no name
\* never call the native batch function and return success.
C8_EmptyBatch ==
    (result.op \in BatchOps /\ last.names = <<>>) =>
        /\ CallsOf(trace, BatchFns) = <<>>
        /\ result.ok

\* C8 as amended: given no name they never call the native batch function,
\* and return success whenever the name-set was allocated; when nvlist_alloc
\* fails they return an Error.
C8_EmptyBatchAmended ==
    (result.op \in BatchOps /\ last.names = <<>>) =>
        /\ CallsOf(trace, BatchFns) = <<>>
        /\ result.ok <=> last.alloc = 0

\* create_snapshots was given no name, allocated the name-set, found it
\* empty and freed it
C8_Witness ==
    /\ result.op = "create_snapshots"
    /\ last.names = <<>>
    /\ last.alloc = 0
    /\ result.ok
    /\ CallsOf(trace, {"nvlist_empty"}) # <<>>

\* C9: given names, the batch operations call the native batch function
\* exactly once, with a name-set holding exactly the given names, and return
\* a LibraryError when it returns nonzero.  Stated where the name-set was
\* allocated and the error slot holds a code of the library, so that it is
\* the names that decide it.
C9_BatchExactNames ==
    (result.op \in BatchOps /\ last.names # <<>> /\ last.alloc = 0) =>
        LET calls == CallsOf(trace, BatchFns)
        IN  /\ Len(calls) = 1
            /\ {calls[1].nvl[i] : i \in 1..Len(calls[1].nvl)}
                    = {last.names[i] : i \in 1..Len(last.names)}
            /\ (~result.ok /\ last.slot.code # EZFS_UNKNOWN) => result.err.kind = "Zfs"

\* C10: once the name-set is allocated, the batch operations free it exactly
\* once before they return, on every exit path, and make no call on it (nor
\* any other) after the free.
C10_NvlistFreedOnce ==
    (result.op \in BatchOps /\ last.alloc = 0) =>
        /\ Len(CallsOf(trace, {"nvlist_free"})) = 1
        /\ trace[Len(trace)].fn = "nvlist_free"
        /\ \A i \in 1..Len(trace) :
               trace[i].fn \in BatchFns \cup {"nvlist_empty", "nvlist_free"}
                   => trace[i].nvl = trace[Len(trace)].nvl

\* the native batch function has failed and the name-set was freed after
\* the error lookup
C10_Witness ==
    /\ result.op = "destroy_snapshots"
    /\ ~result.ok
    /\ last.alloc = 0
    /\ Len(last.names) = 2
    /\ trace[Len(trace)].fn = "nvlist_free"
\* the pairs of a collect-mode and a callback-mode enumeration of the same
\* native iterator
C11_Pairs == {<<"get_snapshots", "foreach_snapshot">>,
              <<"get_snapshots_ordered", "foreach_snapshot_ordered">>}

\* one sequence starts the other
C11_IsPrefix(a, b) == Len(a) <= Len(b) /\ a = SubSeq(b, 1, Len(a))

\* C11: collect mode and callback mode over the same snapshots give the
\* same names in the same order: when get_snapshots and foreach_snapshot (or
\* get_snapshots_ordered and foreach_snapshot_ordered) run one after the
\* other on a dataset and both succeed, the names of the Datasets returned
\* equal the names of the Datasets given to the callback; a callback-mode
\* run that fails has given the callback the first of them.
C11_SameNamesSameOrder ==
    LET now == Outcome(result, last)
        was == last.before
    IN  /\ (now.ok /\ was.ok /\ (<<now.op, was.op>> \in C11_Pairs
                                  \/ <<was.op, now.op>> \in C11_Pairs))
               => now.names = was.names
        /\ (~now.ok /\ was.ok /\ <<was.op, now.op>> \in C11_Pairs)
               => C11_IsPrefix(now.names, was.names)

\* get_snapshots_ordered returned three snapshots in an order that is not
\* the order of the walk, and foreach_snapshot_ordered then ran
C11_Witness ==
    /\ result.op = "foreach_snapshot_ordered"
    /\ result.ok
    /\ last.before.op = "get_snapshots_ordered"
    /\ last.before.ok
    /\ last.before.names = <<2, 3, 1>>
    /\ Len(last.cb) = 3

\* the creation times of the snapshots the last enumeration yielded, in the
\* order in which it yielded them
C12_Times ==
    [i \in 1..Len(Yielded(result, last)) |->
        Behind(last, Yielded(result, last)[i]).creation]

\* C12: get_snapshots_ordered returns, and foreach_snapshot_ordered gives to
\* the callback, the snapshots of the dataset in non-decreasing order of
\* creation time, whatever the snapshots and the order of their creation
\* times; a run that succeeds yields every snapshot once.
C12_OldestFirst ==
    result.op \in {"get_snapshots_ordered", "foreach_snapshot_ordered"} =>
        /\ \A i, j \in 1..Len(C12_Times) : i < j => C12_Times[i] <= C12_Times[j]
        /\ result.ok =>
               /\ Len(Yielded(result, last)) = Len(snaps)
               /\ {get_name(last, Yielded(result, last)[i]) :
                       i \in 1..Len(Yielded(result, last))} = 1..Len(snaps)

\* snapshots walked with creation times 3, 1, 2 were returned oldest first
C12_Witness ==
    /\ snaps = <<3, 1, 2>>
    /\ result.op = "get_snapshots_ordered"
    /\ result.ok
    /\ C12_Times = <<1, 2, 3>>

\* the handles get_datasets collected, the root first, and their types
C13_All == HandlesOf(trace, "zfs_iter_dependents") \o last.delivered
C13_Types == <<Filesystem>> \o last.types

\* the places of the snapshots and bookmarks among them
C13_Removed == {i \in 1..Len(C13_All) : C13_Types[i] \in {Snapshot, Bookmark}}
C13_Stay == (1..Len(C13_All)) \ C13_Removed

\* C13: get_datasets, on success, returns only filesystems and volumes: the
\* root filesystem and its dependents without the snapshots and bookmarks,
\* in order; the handle of each entry removed was closed exactly once, and no
\* entry of another type was removed or closed.
C13_OnlyFilesystemsAndVolumes ==
    (result.op = "get_datasets" /\ result.ok) =>
        /\ Len(result.vec) = Cardinality(C13_Stay)
        /\ \A i \in C13_Stay :
               /\ C13_Types[i] \in {Filesystem, Volume}
               /\ result.vec[Cardinality({j \in C13_Stay : j <= i})] = C13_All[i]
               /\ datasets[C13_All[i]] = 1
               /\ zfsClosed[C13_All[i]] = 0
        /\ \A i \in C13_Removed :
               /\ Len(SelectSeq(trace, LAMBDA c : c.fn = "zfs_close" /\ c.h = C13_All[i])) = 1
               /\ datasets[C13_All[i]] = 0
               /\ zfsClosed[C13_All[i]] = 1
        /\ Len(HandlesOf(trace, "zfs_close")) = Cardinality(C13_Removed)

\* get_datasets returned the root and a volume, and removed a bookmark
C13_Witness ==
    /\ result.op = "get_datasets"
    /\ result.ok
    /\ last.types = <<Bookmark, Volume>>
    /\ Len(result.vec) = 2
    /\ HandlesOf(trace, "zfs_close") = <<last.delivered[1]>>

\* C14: every name a batch operation adds to the name-set reaches the
\* native library as the full name it was given, as a validated SafeString
\* would; a name with an embedded NUL is rejected, the operation returning
\* an Error without calling the native batch function, and never handed on
\* cut short.
C14_NamesPassedWhole ==
    (result.op \in BatchOps /\ last.alloc = 0) =>
        LET adds == CallsOf(trace, {"fnvlist_add_boolean"})
        IN  IF \E i \in 1..Len(last.names) : HasNul(last.names[i])
            THEN ~result.ok /\ CallsOf(trace, BatchFns) = <<>>
            ELSE /\ Len(adds) = Len(last.names)
                 /\ \A i \in 1..Len(adds) : adds[i].str = last.names[i]

\* C15: building a SafeString from a host text with an embedded NUL fails
\* (panics) and yields no SafeString; building it from a text without NUL
\* succeeds, and the text view (AsRef<str>) and the conversion back to
\* String both give exactly the text it was built from.
C15_SafeStringRoundTrip ==
    /\ safe.state = "panicked" => HasNul(safe.text) /\ safe.inner = <<>>
    /\ (safe.state # "none" /\ HasNul(safe.text)) => safe.state = "panicked"
    /\ safe.state \in {"built", "viewed"} =>
           /\ ~HasNul(safe.text)
           /\ Len(safe.inner) = Len(safe.text) + 1
           /\ safe.inner[Len(safe.inner)] = NUL
    /\ safe.state \in {"viewed", "consumed"} => safe.view = safe.text

\* a SafeString built from a text of four bytes has been viewed as text
C15_Witness ==
    /\ safe.state = "viewed"
    /\ safe.text = <<1, 2, 2, 1>>
    /\ safe.view = <<1, 2, 2, 1>>

\* the native calls whose failure an operation reports
C16_FailingCalls ==
    {"zpool_open", "zfs_open", "zpool_iter", "zfs_iter_snapshots",
     "zfs_iter_snapshots_sorted", "zfs_iter_filesystems", "zfs_iter_dependents",
     "nvlist_alloc"} \cup BatchFns

\* C16: in every operation that reports a native failure the error slot is
\* read (libzfs_errno, then libzfs_error_description) immediately after the
\* failing native call: no other native call, such as the zfs_get_type and
\* zfs_close of the filtering step of get_datasets or nvlist_free, comes
\* between the two.
C16_SlotReadAtOnce ==
    \A i \in 1..Len(trace) :
        trace[i].fn = "libzfs_errno" =>
            /\ i > 1
            /\ trace[i - 1].fn \in C16_FailingCalls
            /\ i < Len(trace)
            /\ trace[i + 1].fn = "libzfs_error_description"

\* the place in the trace of the one native enumeration call of a
\* callback-mode operation
C17_IterAt ==
    CHOOSE i \in 1..Len(trace) :
        trace[i].fn \in {"zfs_iter_snapshots", "zfs_iter_snapshots_sorted"}

\* C17: in callback mode the callback is invoked once per delivered handle,
\* in delivery order, each time with a Dataset newly built around the handle
\* and owned by the callback (it is live, or the callback let it go and the
\* handle was closed once), and only while the one native enumeration call
\* runs: what the callback closed was closed before that call returned, and
\* no other operation invokes it.  When the native call returns nonzero the
\* operation returns an Error and what the callback did stays done.
C17_CallbackPerHandle ==
    /\ result.op \notin ForeachOps => last.cb = <<>>
    /\ result.op \in ForeachOps =>
        /\ last.cb = last.delivered
        /\ Len(CallsOf(trace, {"zfs_iter_snapshots", "zfs_iter_snapshots_sorted"})) = 1
        /\ \A i \in 1..Len(last.cb) :
               /\ zfsWrapped[last.cb[i]] = 1
               /\ datasets[last.cb[i]] + zfsClosed[last.cb[i]] = 1
        /\ \A j \in 1..Len(trace) : trace[j].fn = "zfs_close" =>
               /\ j < C17_IterAt
               /\ \E i \in 1..Len(last.cb) : last.cb[i] = trace[j].h
        /\ result.vec = <<>>
        /\ result.ok <=> last.slot = NoSlot
        /\ ~result.ok => result.err.kind \in {"Zfs", "Sys"}

\* foreach_snapshot failed after the callback was given two Datasets, of
\* which it kept the first and let the second go
C17_Witness ==
    /\ result.op = "foreach_snapshot"
    /\ ~result.ok
    /\ Len(last.cb) = 2
    /\ datasets[last.cb[1]] = 1
    /\ zfsClosed[last.cb[2]] = 1

\* C18: every live ZPool and every live Dataset wraps a native handle that
\* is not null, however it was made (open by name, enumeration, get_pool,
\* clone, also when zfs_handle_dup fails), and no close call is made on a
\* null handle.
C18_HandlesNeverNull ==
    /\ datasets[NULL] = 0
    /\ zpools[NULL] = 0
    /\ zfsWrapped[NULL] = 0
    /\ zpoolWrapped[NULL] = 0
    /\ \A i \in 1..Len(trace) :
           trace[i].fn \in {"zfs_close", "zpool_close"} => trace[i].h # NULL

\* C19: when libzfs_init returns a null handle LibZfs::new returns an
\* EnvironmentError with the last OS error and no LibZfs comes to be, so
\* libzfs_fini is never called on a null handle; when it returns a handle,
\* new returns a LibZfs owning exactly that handle.
C19_NewOrEnvironmentError ==
    /\ result.op = "new" =>
        IF last.delivered = <<NULL>>
        THEN /\ ~result.ok
             /\ result.err = [kind |-> "Sys", code |-> "", msg |-> "",
                              errno |-> last.slot.errno]
             /\ result.vec = <<>>
             /\ libzfs = "none"
             /\ libzfsHandle = NULL
        ELSE /\ result.ok
             /\ result.vec = last.delivered
             /\ libzfs = "live"
             /\ libzfsHandle = last.delivered[1]
    /\ libzfs = "none" => libzfsHandle = NULL /\ finiCalls = 0
    /\ libzfs # "none" => libzfsHandle # NULL
    /\ \A i \in 1..Len(trace) : trace[i].fn = "libzfs_fini" =>
           trace[i].h # NULL /\ trace[i].h = libzfsHandle

\* libzfs_init returned null with errno ENOMEM
C19_Witness ==
    /\ result.op = "new"
    /\ last.delivered = <<NULL>>
    /\ result.err.kind = "Sys"
    /\ result.err.errno = 12
    /\ libzfs = "none"
====
